---- MODULE Spec2Model ----
(***************************************************************************)
(* The bidding phase of contree (src/src/bids.rs), with the player         *)
(* rotation of src/src/players.rs and the suits of src/src/cards.rs.       *)
(*                                                                         *)
(* A BidPhase is the record [starting_player, bids, countered, state].     *)
(* The methods of BidPhase are operators over that record, translated      *)
(* statement by statement; the actions apply them to the variables.        *)
(***************************************************************************)
EXTENDS Integers, Sequences, FiniteSets, TLC

VARIABLES starting_player, bids, countered, state, last,
          first_player, rounds, cards, hands, calls

\* The Game and its Deck (game.rs, deck.rs): first_player, rounds and
\* cards are fields; hands is the value of the last deal and calls counts
\* the calls of new_round.
gvars == <<first_player, rounds, cards, hands, calls>>

vars == <<starting_player, bids, countered, state, last, gvars>>

(***************************************************************************)
(* Bounds of the model.                                                    *)
(***************************************************************************)
\* Pass, Capot, Counter and DoubleCounter are always tried; of the nine
\* point bids Eighty..HundredSixty the callers try the MaxPointIn lowest.
MaxPointIn == 1
\* The callers stop submitting once the history holds MaxLen entries.
MaxLen == 7
\* The callers call new_round at most MaxCalls times.
MaxCalls == 3

(***************************************************************************)
(* players.rs                                                              *)
(***************************************************************************)
Players == {"North", "West", "South", "East"}

next_player(p) ==
    CASE p = "South" -> "West"
      [] p = "West"  -> "North"
      [] p = "North" -> "East"
      [] p = "East"  -> "South"

team(p) ==
    IF p \in {"South", "North"} THEN "SouthNorth" ELSE "EastWest"

(***************************************************************************)
(* cards.rs                                                                *)
(***************************************************************************)
SuitIterator == <<"Clubs", "Diamonds", "Hearts", "Spades">>

Suits == {SuitIterator[i] : i \in 1..Len(SuitIterator)}

\* Option<Suit>::None
None == "None"

OptSuits == Suits \cup {None}

(***************************************************************************)
(* bids.rs: Bid                                                            *)
(***************************************************************************)
\* Bid::iterator(): the variants in the order of the static array.
BidIterator ==
    <<"Pass", "Eighty", "Ninety", "Hundred", "HundredTen", "HundredTwenty",
      "HundredThirty", "HundredForty", "HundredFifty", "HundredSixty",
      "Capot", "Counter", "DoubleCounter">>

Bids == {BidIterator[i] : i \in 1..Len(BidIterator)}

\* #[derive(PartialOrd, Ord)] on enum Bid: the discriminant, in declaration order.
BidOrd(b) ==
    CASE b = "Pass"          -> 0
      [] b = "Eighty"        -> 1
      [] b = "Ninety"        -> 2
      [] b = "Hundred"       -> 3
      [] b = "HundredTen"    -> 4
      [] b = "HundredTwenty" -> 5
      [] b = "HundredThirty" -> 6
      [] b = "HundredForty"  -> 7
      [] b = "HundredFifty"  -> 8
      [] b = "HundredSixty"  -> 9
      [] b = "Capot"         -> 10
      [] b = "Counter"       -> 11
      [] b = "DoubleCounter" -> 12

requires_suit(b) ==
    IF b \in {"Pass", "Counter", "DoubleCounter"} THEN FALSE ELSE TRUE

(***************************************************************************)
(* bids.rs: the error messages of bail!, and the panic of Option::unwrap   *)
(***************************************************************************)
Ok == "Ok"
ErrPhaseOver == "The bidding phase is over!"
ErrWrongPlayer == "Wrong player"
ErrBidNotPossible == "Bid not possible"
ErrMissingSuit == "A bid other than pass/counter/doublecounter must have a suit associated"
ErrInvalidState == "Invalid bidding state: expected the bidding phase to be done with a bid"
ErrNoContract == "Couldn't get a contract from the list of bids"
PanicUnwrapNone == "panic: called Option::unwrap() on a None value"

(***************************************************************************)
(* bids.rs: BidPhase                                                       *)
(***************************************************************************)
\* BidPhase::new
BidPhaseNew(sp) ==
    [starting_player |-> sp, bids |-> <<>>, countered |-> None, state |-> "Ongoing"]

\* The loop of last_bid without the test b.1 != Bid::Pass: the last entry.
LastBidScan_NoPassTest(bs, i) ==
    IF i = 0 THEN [some |-> FALSE]
    ELSE [some |-> TRUE, player |-> bs[i].player, bid |-> bs[i].bid]

\* The loop of last_bid: self.bids.iter().rev() from index i down to 1.
RECURSIVE LastBidScan(_, _)
LastBidScan(bs, i) ==
    IF i = 0 THEN [some |-> FALSE]
    ELSE IF bs[i].bid # "Pass"
         THEN [some |-> TRUE, player |-> bs[i].player, bid |-> bs[i].bid]
    ELSE LastBidScan(bs, i - 1)

\* BidPhase::last_bid: the last entry other than Pass, as an Option.
last_bid(self) ==
    IF self.bids = <<>> THEN [some |-> FALSE]
    ELSE LastBidScan(self.bids, Len(self.bids))

\* available_bids with the filter **b >= last_bid.1 in place of **b > last_bid.1.
available_bids_NotStrict(self, player) ==
    IF ~last_bid(self).some
    THEN SelectSeq(BidIterator, LAMBDA b : b # "Counter" /\ b # "DoubleCounter")
    ELSE LET lb == last_bid(self) IN
         IF lb.bid = "DoubleCounter" THEN <<>>
         ELSE IF lb.bid = "Counter"
         THEN IF team(lb.player) = team(player)
              THEN <<"Pass">>
              ELSE <<"Pass", "DoubleCounter">>
         ELSE <<"Pass">> \o
              SelectSeq(BidIterator,
                        LAMBDA b : BidOrd(b) >= BidOrd(lb.bid) /\ b # "DoubleCounter")

\* available_bids with the team test of the Counter branch inverted (!= for ==).
available_bids_TeamsSwapped(self, player) ==
    IF ~last_bid(self).some
    THEN SelectSeq(BidIterator, LAMBDA b : b # "Counter" /\ b # "DoubleCounter")
    ELSE LET lb == last_bid(self) IN
         IF lb.bid = "DoubleCounter" THEN <<>>
         ELSE IF lb.bid = "Counter"
         THEN IF team(lb.player) # team(player)
              THEN <<"Pass">>
              ELSE <<"Pass", "DoubleCounter">>
         ELSE <<"Pass">> \o
              SelectSeq(BidIterator,
                        LAMBDA b : BidOrd(b) > BidOrd(lb.bid) /\ b # "DoubleCounter")

\* BidPhase::available_bids
available_bids(self, player) ==
    IF ~last_bid(self).some
    THEN SelectSeq(BidIterator, LAMBDA b : b # "Counter" /\ b # "DoubleCounter")
    ELSE LET lb == last_bid(self) IN
         IF lb.bid = "DoubleCounter" THEN <<>>
         ELSE IF lb.bid = "Counter"
         THEN IF team(lb.player) = team(player)
              THEN <<"Pass">>
              ELSE <<"Pass", "DoubleCounter">>
         ELSE <<"Pass">> \o
              SelectSeq(BidIterator,
                        LAMBDA b : BidOrd(b) > BidOrd(lb.bid) /\ b # "DoubleCounter")

\* Vec::contains
Contains(seq, x) == \E i \in 1..Len(seq) : seq[i] = x

\* The loop of next_state without the test self.last_bid().is_some().
RECURSIVE NextStateScan_NoLastBidTest(_, _, _)
NextStateScan_NoLastBidTest(self, i, pass_count) ==
    IF i = 0 THEN "Ongoing"
    ELSE LET bid == self.bids[i].bid
             pc  == IF bid = "Pass" THEN pass_count + 1 ELSE pass_count
         IN  IF pc = 3 THEN "Done"
             ELSE IF pc = 4 THEN "DealAgain"
             ELSE IF bid # "Pass" THEN "Ongoing"
             ELSE NextStateScan_NoLastBidTest(self, i - 1, pc)

\* The loop of next_state without the break at the first entry other than Pass.
RECURSIVE NextStateScan_NoBreak(_, _, _)
NextStateScan_NoBreak(self, i, pass_count) ==
    IF i = 0 THEN "Ongoing"
    ELSE LET bid == self.bids[i].bid
             pc  == IF bid = "Pass" THEN pass_count + 1 ELSE pass_count
         IN  IF last_bid(self).some /\ pc = 3 THEN "Done"
             ELSE IF pc = 4 THEN "DealAgain"
             ELSE NextStateScan_NoBreak(self, i - 1, pc)

\* The loop of next_state without the test pass_count == 4.
RECURSIVE NextStateScan_NoDealAgain(_, _, _)
NextStateScan_NoDealAgain(self, i, pass_count) ==
    IF i = 0 THEN "Ongoing"
    ELSE LET bid == self.bids[i].bid
             pc  == IF bid = "Pass" THEN pass_count + 1 ELSE pass_count
         IN  IF last_bid(self).some /\ pc = 3 THEN "Done"
             ELSE IF bid # "Pass" THEN "Ongoing"
             ELSE NextStateScan_NoDealAgain(self, i - 1, pc)

\* The loop of next_state: entries i down to 1, pass_count passes counted so far.
RECURSIVE NextStateScan(_, _, _)
NextStateScan(self, i, pass_count) ==
    IF i = 0 THEN "Ongoing"
    ELSE LET bid == self.bids[i].bid
             pc  == IF bid = "Pass" THEN pass_count + 1 ELSE pass_count
         IN  IF last_bid(self).some /\ pc = 3 THEN "Done"
             ELSE IF pc = 4 THEN "DealAgain"
             ELSE IF bid # "Pass" THEN "Ongoing"
             ELSE NextStateScan(self, i - 1, pc)

\* The length test of next_state is off by one: len() <= 4.
next_state_LenOffByOne(self) ==
    IF Len(self.bids) <= 4 THEN "Ongoing"
    ELSE NextStateScan(self, Len(self.bids), 0)

\* BidPhase::next_state
next_state(self) ==
    IF Len(self.bids) <= 3 THEN "Ongoing"
    ELSE NextStateScan(self, Len(self.bids), 0)

\* The loop of Contract::new without the continue of the Counter branch: the
\* Counter entry itself falls through to the test bid != Bid::Pass.
RECURSIVE ContractScan_CounterFallsThrough(_, _, _, _)
ContractScan_CounterFallsThrough(bs, i, c, dc) ==
    IF i = 0 THEN [result |-> ErrNoContract]
    ELSE IF bs[i].bid = "DoubleCounter"
         THEN ContractScan_CounterFallsThrough(bs, i - 1, c, TRUE)
    ELSE IF bs[i].bid # "Pass"
         THEN IF bs[i].suit = None
              THEN [result |-> PanicUnwrapNone]
              ELSE [result |-> Ok,
                    contract |-> [player |-> bs[i].player, bid |-> bs[i].bid,
                                  suit |-> bs[i].suit,
                                  countered |-> (c \/ bs[i].bid = "Counter"),
                                  double_countered |-> dc]]
    ELSE ContractScan_CounterFallsThrough(bs, i - 1, c, dc)

\* The loop of Contract::new over bids.iter() without rev(): i entries are
\* left to scan, from the oldest to the newest.
RECURSIVE ContractScan_Forward(_, _, _, _)
ContractScan_Forward(bs, i, c, dc) ==
    IF i = 0 THEN [result |-> ErrNoContract]
    ELSE LET e == bs[Len(bs) - i + 1] IN
         IF e.bid = "DoubleCounter" THEN ContractScan_Forward(bs, i - 1, c, TRUE)
         ELSE IF e.bid = "Counter" THEN ContractScan_Forward(bs, i - 1, TRUE, dc)
         ELSE IF e.bid # "Pass"
              THEN IF e.suit = None
                   THEN [result |-> PanicUnwrapNone]
                   ELSE [result |-> Ok,
                         contract |-> [player |-> e.player, bid |-> e.bid,
                                       suit |-> e.suit, countered |-> c,
                                       double_countered |-> dc]]
         ELSE ContractScan_Forward(bs, i - 1, c, dc)

\* The loop of Contract::new: entries i down to 1, with the flags found so far.
RECURSIVE ContractScan(_, _, _, _)
ContractScan(bs, i, c, dc) ==
    IF i = 0 THEN [result |-> ErrNoContract]
    ELSE IF bs[i].bid = "DoubleCounter" THEN ContractScan(bs, i - 1, c, TRUE)
    ELSE IF bs[i].bid = "Counter" THEN ContractScan(bs, i - 1, TRUE, dc)
    ELSE IF bs[i].bid # "Pass"
         THEN IF bs[i].suit = None
              THEN [result |-> PanicUnwrapNone]
              ELSE [result |-> Ok,
                    contract |-> [player |-> bs[i].player, bid |-> bs[i].bid,
                                  suit |-> bs[i].suit, countered |-> c,
                                  double_countered |-> dc]]
    ELSE ContractScan(bs, i - 1, c, dc)

\* Contract::new
ContractNew(bs) == ContractScan(bs, Len(bs), FALSE, FALSE)

\* BidPhase::get_contract
get_contract(self) ==
    IF self.state # "Done" THEN [result |-> ErrInvalidState]
    ELSE ContractNew(self.bids)

\* The turn check compares the submitting player with the last player itself.
ExpectedPlayer_NoAdvance(self) ==
    IF self.bids # <<>>
    THEN self.bids[Len(self.bids)].player
    ELSE self.starting_player

\* The player whose turn it is (the first check of BidPhase::bid).
ExpectedPlayer(self) ==
    IF self.bids # <<>>
    THEN next_player(self.bids[Len(self.bids)].player)
    ELSE self.starting_player

\* self.bids.push((player, bid, suit))
Push(self, player, bid, suit) ==
    [self EXCEPT !.bids = Append(@, [player |-> player, bid |-> bid, suit |-> suit])]

\* bid with the turn check of the non-empty history only (no else branch).
bid_NoTurnCheckOnEmpty(self, player, b, suit) ==
    IF self.state # "Ongoing"
    THEN [self |-> self, result |-> ErrPhaseOver]
    ELSE IF self.bids # <<>> /\ player # ExpectedPlayer(self)
    THEN [self |-> self, result |-> ErrWrongPlayer]
    ELSE IF self.bids = <<>>
    THEN [self |-> Push(self, player, b, suit), result |-> Ok]
    ELSE IF ~Contains(available_bids(self, player), b)
    THEN [self |-> self, result |-> ErrBidNotPossible]
    ELSE IF suit = None /\ requires_suit(b)
    THEN [self |-> self, result |-> ErrMissingSuit]
    ELSE LET pushed == Push(self, player, b, suit)
         IN  [self |-> [pushed EXCEPT !.state = next_state(pushed)], result |-> Ok]

\* bid without the test of self.state.
bid_NoPhaseCheck(self, player, b, suit) ==
    IF player # ExpectedPlayer(self)
    THEN [self |-> self, result |-> ErrWrongPlayer]
    ELSE IF self.bids = <<>>
    THEN [self |-> Push(self, player, b, suit), result |-> Ok]
    ELSE IF ~Contains(available_bids(self, player), b)
    THEN [self |-> self, result |-> ErrBidNotPossible]
    ELSE IF suit = None /\ requires_suit(b)
    THEN [self |-> self, result |-> ErrMissingSuit]
    ELSE LET pushed == Push(self, player, b, suit)
         IN  [self |-> [pushed EXCEPT !.state = next_state(pushed)], result |-> Ok]

\* bid with the push moved before the suit check.
bid_PushBeforeSuitCheck(self, player, b, suit) ==
    IF self.state # "Ongoing"
    THEN [self |-> self, result |-> ErrPhaseOver]
    ELSE IF player # ExpectedPlayer(self)
    THEN [self |-> self, result |-> ErrWrongPlayer]
    ELSE IF self.bids = <<>>
    THEN [self |-> Push(self, player, b, suit), result |-> Ok]
    ELSE IF ~Contains(available_bids(self, player), b)
    THEN [self |-> self, result |-> ErrBidNotPossible]
    ELSE LET pushed == Push(self, player, b, suit) IN
         IF suit = None /\ requires_suit(b)
         THEN [self |-> pushed, result |-> ErrMissingSuit]
         ELSE [self |-> [pushed EXCEPT !.state = next_state(pushed)], result |-> Ok]

\* bid without the test against available_bids.
bid_NoAvailableCheck(self, player, b, suit) ==
    IF self.state # "Ongoing"
    THEN [self |-> self, result |-> ErrPhaseOver]
    ELSE IF player # ExpectedPlayer(self)
    THEN [self |-> self, result |-> ErrWrongPlayer]
    ELSE IF self.bids = <<>>
    THEN [self |-> Push(self, player, b, suit), result |-> Ok]
    ELSE IF suit = None /\ requires_suit(b)
    THEN [self |-> self, result |-> ErrMissingSuit]
    ELSE LET pushed == Push(self, player, b, suit)
         IN  [self |-> [pushed EXCEPT !.state = next_state(pushed)], result |-> Ok]

\* BidPhase::bid: the BidPhase after the call and the Result it returns.
bid(self, player, b, suit) ==
    IF self.state # "Ongoing"
    THEN [self |-> self, result |-> ErrPhaseOver]
    ELSE IF player # ExpectedPlayer(self)
    THEN [self |-> self, result |-> ErrWrongPlayer]
    ELSE IF self.bids = <<>>
    THEN [self |-> Push(self, player, b, suit), result |-> Ok]
    ELSE IF ~Contains(available_bids(self, player), b)
    THEN [self |-> self, result |-> ErrBidNotPossible]
    ELSE IF suit = None /\ requires_suit(b)
    THEN [self |-> self, result |-> ErrMissingSuit]
    ELSE LET pushed == Push(self, player, b, suit)
         IN  [self |-> [pushed EXCEPT !.state = next_state(pushed)], result |-> Ok]

(***************************************************************************)
(* The state machine                                                       *)
(***************************************************************************)
\* The BidPhase held in the variables.
Self ==
    [starting_player |-> starting_player, bids |-> bids,
     countered |-> countered, state |-> state]

\* The bids the callers submit.
BidIn ==
    {b \in Bids : BidOrd(b) = 0 \/ BidOrd(b) <= MaxPointIn \/ BidOrd(b) >= 10}

\* The suits the callers submit: none, or the first suit.
SuitIn == {None, SuitIterator[1]}

\* The state after BidPhase::new(sp), for every seat sp. The variable last
\* records the last call: the method, the Result it returned (Ok or the
\* error message) and the value it returned, if any. No Game is built in
\* the specifications of the bidding phase: its variables never change.
Init ==
    /\ \E sp \in Players :
         /\ starting_player = BidPhaseNew(sp).starting_player
         /\ bids = BidPhaseNew(sp).bids
         /\ countered = BidPhaseNew(sp).countered
         /\ state = BidPhaseNew(sp).state
    /\ last = [op |-> "new", result |-> Ok, value |-> None]
    /\ first_player = "South" /\ rounds = <<>> /\ cards = <<>>
    /\ hands = <<>> /\ calls = 0

\* A caller submits (player, b, suit); a suit comes with the bids that need one.
Bid ==
    \E player \in Players, b \in BidIn, suit \in SuitIn :
        LET r == bid(Self, player, b, suit) IN
        /\ Len(bids) < MaxLen
        /\ requires_suit(b) \/ suit = None
        /\ starting_player' = r.self.starting_player
        /\ bids' = r.self.bids
        /\ countered' = r.self.countered
        /\ state' = r.self.state
        /\ last' = [op |-> "bid", result |-> r.result, value |-> None]
        /\ UNCHANGED gvars

\* A caller asks for the contract.
GetContract ==
    LET r == get_contract(Self) IN
    /\ last' = [op |-> "get_contract", result |-> r.result,
                value |-> IF r.result = Ok THEN r.contract ELSE None]
    /\ UNCHANGED <<starting_player, bids, countered, state, gvars>>

\* A caller asks which bids a player may submit.
AvailableBids ==
    \E player \in Players :
        /\ last' = [op |-> "available_bids", result |-> Ok,
                    value |-> available_bids(Self, player)]
        /\ UNCHANGED <<starting_player, bids, countered, state, gvars>>

Next == Bid \/ GetContract \/ AvailableBids

Spec == Init /\ [][Next]_vars

\* A caller submits (player, b, suit), however long the history is.
BidUncapped ==
    \E player \in Players, b \in BidIn, suit \in SuitIn :
        LET r == bid(Self, player, b, suit) IN
        /\ requires_suit(b) \/ suit = None
        /\ starting_player' = r.self.starting_player
        /\ bids' = r.self.bids
        /\ countered' = r.self.countered
        /\ state' = r.self.state
        /\ last' = [op |-> "bid", result |-> r.result, value |-> None]
        /\ UNCHANGED gvars

NextLong == BidUncapped

\* The auctions to their end: submissions only, with no cap on the history.
SpecLong == Init /\ [][NextLong]_vars

(***************************************************************************)
(* cards.rs, deck.rs: the Deck                                             *)
(***************************************************************************)
\* Rank::iterator()
RankIterator ==
    <<"Seven", "Eight", "Nine", "Ten", "Jack", "Queen", "King", "Ace">>

\* Card::new
CardNew(suit, rank) == [suit |-> suit, rank |-> rank]

\* The array filled by the loops of Deck::new, before it is shuffled:
\* cards[i] for i = 0..31 is the card of suit i / 8 and rank i % 8.
DeckNewCards ==
    [i \in 1..(Len(SuitIterator) * Len(RankIterator)) |->
        CardNew(SuitIterator[((i - 1) \div Len(RankIterator)) + 1],
                RankIterator[((i - 1) % Len(RankIterator)) + 1])]

\* Deck::shuffle: the orders the random generator may leave the cards in.
\* The model draws them from the cuts of the deck and their reversals.
ShuffleOutcomes(cs) ==
    LET n == Len(cs)
        Cut(r) == [i \in 1..n |-> cs[((i - 1 + r) % n) + 1]]
    IN  {Cut(r) : r \in 0..(n - 1)}
        \cup {[i \in 1..n |-> Cut(r)[n + 1 - i]] : r \in 0..(n - 1)}

\* self.cards[a..b] of Rust: the entries a..b-1, counted from 0.
Slice(cs, a, b) == SubSeq(cs, a + 1, b)

\* A deal in rounds of 2, 3 and 3 cards.
num_cards_TwoFirst(i) == IF i = 0 THEN 2 ELSE 3

\* let num_cards = if i == 1 { 2 } else { 3 }
num_cards(i) == IF i = 1 THEN 2 ELSE 3

\* The loop of Deck::deal: round i of 0..3, j the index in the deck.
RECURSIVE DealLoop(_, _, _, _)
DealLoop(cs, hs, j, i) ==
    IF i = 3 THEN hs
    ELSE LET n == num_cards(i) IN
         DealLoop(cs,
                  <<hs[1] \o Slice(cs, j, j + n),
                    hs[2] \o Slice(cs, j + n, j + 2 * n),
                    hs[3] \o Slice(cs, j + 2 * n, j + 3 * n),
                    hs[4] \o Slice(cs, j + 3 * n, j + 4 * n)>>,
                  j + 4 * n, i + 1)

\* Deck::deal: [cards1, cards2, cards3, cards4]
deal(cs) == DealLoop(cs, << <<>>, <<>>, <<>>, <<>> >>, 0, 0)

(***************************************************************************)
(* game.rs: the Game                                                       *)
(***************************************************************************)
\* Game::is_initial_round
is_initial_round(rs) == rs = <<>>

\* The first_player that new_round leaves.
NewRoundFirstPlayer(fp, rs) ==
    IF ~is_initial_round(rs) THEN next_player(fp) ELSE fp

\* The state after Game::new(): first_player South, no round, and the deck
\* of Deck::new, which is shuffled. No BidPhase is built by the Game.
InitGame ==
    /\ first_player = "South"
    /\ rounds = <<>>
    /\ cards \in ShuffleOutcomes(DeckNewCards)
    /\ hands = <<>>
    /\ calls = 0
    /\ starting_player = BidPhaseNew("South").starting_player
    /\ bids = BidPhaseNew("South").bids
    /\ countered = BidPhaseNew("South").countered
    /\ state = BidPhaseNew("South").state
    /\ last = [op |-> "new", result |-> Ok, value |-> None]

\* Game::new_round: first_player moves unless this is the initial round, the
\* deck is shuffled and dealt. Nothing in the Game adds to rounds.
NewRound ==
    /\ calls < MaxCalls
    /\ first_player' = NewRoundFirstPlayer(first_player, rounds)
    /\ \E shuffled \in ShuffleOutcomes(cards) :
         /\ cards' = shuffled
         /\ hands' = deal(shuffled)
    /\ rounds' = rounds
    /\ calls' = calls + 1
    /\ last' = [op |-> "new_round", result |-> Ok, value |-> None]
    /\ UNCHANGED <<starting_player, bids, countered, state>>

\* A caller deals the deck as it is (Deck::deal takes &self).
Deal ==
    /\ hands' = deal(cards)
    /\ last' = [op |-> "deal", result |-> Ok, value |-> None]
    /\ UNCHANGED <<first_player, rounds, cards, calls>>
    /\ UNCHANGED <<starting_player, bids, countered, state>>

NextGame == NewRound \/ Deal

SpecGame == InitGame /\ [][NextGame]_vars

(***************************************************************************)
(* Vocabulary of the properties, stated on the history itself.             *)
(***************************************************************************)
\* The seat k places clockwise after p.
RECURSIVE SeatAfter(_, _)
SeatAfter(p, k) == IF k = 0 THEN p ELSE next_player(SeatAfter(p, k - 1))

\* The point bids Eighty..Capot.
PointBids ==
    {"Eighty", "Ninety", "Hundred", "HundredTen", "HundredTwenty",
     "HundredThirty", "HundredForty", "HundredFifty", "HundredSixty", "Capot"}

\* The canonical order of the bids: the position in the ladder.
Ladder ==
    <<"Pass", "Eighty", "Ninety", "Hundred", "HundredTen", "HundredTwenty",
      "HundredThirty", "HundredForty", "HundredFifty", "HundredSixty",
      "Capot", "Counter", "DoubleCounter">>

LadderPos(b) == CHOOSE i \in 1..Len(Ladder) : Ladder[i] = b

\* The elements of a sequence.
Range(seq) == {seq[i] : i \in 1..Len(seq)}

\* Entries i+1..j-1 of the history are all Pass.
PassesBetween(i, j) == \A k \in (i + 1)..(j - 1) : bids[k].bid = "Pass"

\* The index of the last entry other than Pass, 0 when there is none.
LastRealIndex ==
    IF \A i \in 1..Len(bids) : bids[i].bid = "Pass" THEN 0
    ELSE CHOOSE i \in 1..Len(bids) :
             bids[i].bid # "Pass" /\ PassesBetween(i, Len(bids) + 1)

\* The player whose turn it is, as the rotation defines it.
TurnOf ==
    IF bids = <<>> THEN starting_player ELSE next_player(bids[Len(bids)].player)

\* The submission of Pass by the player whose turn it is is accepted and appended.
PassAccepted ==
    LET r == bid(Self, TurnOf, "Pass", None) IN
    /\ r.result = Ok
    /\ r.self.bids = Append(bids, [player |-> TurnOf, bid |-> "Pass", suit |-> None])

(***************************************************************************)
(* C1: the players of the history entries, in order, are the clockwise     *)
(* rotation started at starting_player: entry i is by the player i seats   *)
(* after starting_player (counting the first entry as 0).                  *)
(***************************************************************************)
C1_Rotation ==
    \A i \in 1..Len(bids) : bids[i].player = SeatAfter(starting_player, i - 1)

\* The rotation has come round to the starting player again.
C1_Witness ==
    /\ Len(bids) = 6
    /\ last.op = "bid" /\ last.result = Ok
    /\ bids[5].player = starting_player

(***************************************************************************)
(* C2: a point bid B with suit S by player P followed by passes only: the  *)
(* phase is Ongoing and the next Pass is accepted while fewer than three   *)
(* passes follow, the phase is Done with the third, and get_contract then  *)
(* returns (P, B, S, countered = false, double_countered = false).         *)
(***************************************************************************)
C2_PointThenThreePasses ==
    \A i \in 1..Len(bids) :
        ( /\ bids[i].bid \in PointBids
          /\ bids[i].suit # None
          /\ PassesBetween(i, Len(bids) + 1) )
        => LET k == Len(bids) - i IN
           /\ k <= 3
           /\ k < 3 => state = "Ongoing" /\ PassAccepted
           /\ k = 3 =>
                /\ state = "Done"
                /\ get_contract(Self) =
                     [result |-> Ok,
                      contract |-> [player |-> bids[i].player, bid |-> bids[i].bid,
                                    suit |-> bids[i].suit, countered |-> FALSE,
                                    double_countered |-> FALSE]]

\* A point bid made after another one stood through three passes and its
\* contract was returned.
C2_Witness ==
    /\ Len(bids) >= 6
    /\ bids[Len(bids) - 3].bid \in PointBids
    /\ PassesBetween(Len(bids) - 3, Len(bids) + 1)
    /\ state = "Done"
    /\ last.op = "get_contract" /\ last.result = Ok
    /\ last.value.player = bids[Len(bids) - 3].player
    /\ ~last.value.countered

(***************************************************************************)
(* C3: from a fresh auction, four passes in rotation order all succeed;    *)
(* the phase is Ongoing after the first three and DealAgain after the      *)
(* fourth, and get_contract then fails with the NoContract error (the      *)
(* "Invalid bidding state" message of get_contract).                       *)
(***************************************************************************)
C3_FourPasses ==
    (\A i \in 1..Len(bids) : bids[i].bid = "Pass")
    => /\ Len(bids) <= 4
       /\ Len(bids) < 4 => state = "Ongoing" /\ PassAccepted
       /\ Len(bids) = 4 =>
            /\ state = "DealAgain"
            /\ get_contract(Self) = [result |-> ErrInvalidState]

C3_Witness ==
    /\ Len(bids) = 4
    /\ \A i \in 1..4 : bids[i].bid = "Pass"
    /\ state = "DealAgain"
    /\ last.op = "get_contract" /\ last.result = ErrInvalidState

(***************************************************************************)
(* C4: a point bid B with suit S by P, then (possibly after passes) a      *)
(* Counter, then passes only: the phase is Ongoing right after the Counter *)
(* and while fewer than three passes follow it, Done with the third, and   *)
(* get_contract returns (P, B, S, countered = true, double_countered =     *)
(* false): the contract is the point bidder's.                             *)
(***************************************************************************)
C4_CounterThenThreePasses ==
    \A i \in 1..Len(bids) : \A j \in (i + 1)..Len(bids) :
        ( /\ bids[i].bid \in PointBids
          /\ bids[i].suit # None
          /\ PassesBetween(i, j)
          /\ bids[j].bid = "Counter"
          /\ PassesBetween(j, Len(bids) + 1) )
        => LET k == Len(bids) - j IN
           /\ k <= 3
           /\ k < 3 => state = "Ongoing" /\ PassAccepted
           /\ k = 3 =>
                /\ state = "Done"
                /\ get_contract(Self) =
                     [result |-> Ok,
                      contract |-> [player |-> bids[i].player, bid |-> bids[i].bid,
                                    suit |-> bids[i].suit, countered |-> TRUE,
                                    double_countered |-> FALSE]]

\* A countered contract was returned, the Counter having come after a pass.
C4_Witness ==
    /\ state = "Done"
    /\ last.op = "get_contract" /\ last.result = Ok
    /\ last.value.countered /\ ~last.value.double_countered
    /\ \E j \in 3..Len(bids) :
         /\ bids[j].bid = "Counter"
         /\ bids[j - 1].bid = "Pass"
         /\ bids[j].player # last.value.player

(***************************************************************************)
(* C5: a submission by a player other than the expected one fails, with    *)
(* the "Wrong player" error when the phase is Ongoing, whatever the bid    *)
(* and the suit, and leaves the BidPhase unchanged.                        *)
(***************************************************************************)
C5_WrongTurn ==
    \A p \in Players \ {TurnOf} : \A b \in Bids : \A s \in OptSuits :
        LET r == bid(Self, p, b, s) IN
        /\ r.result # Ok
        /\ state = "Ongoing" => r.result = ErrWrongPlayer
        /\ r.self = Self

C5_Witness ==
    /\ last.op = "bid" /\ last.result = ErrWrongPlayer
    /\ bids # <<>> /\ state = "Ongoing"

(***************************************************************************)
(* C6: while the phase is Ongoing (the empty history included), the        *)
(* expected player's submission of a bid that requires a suit, with no     *)
(* suit, fails and is not appended; hence every history entry whose bid    *)
(* requires a suit carries a suit.                                         *)
(***************************************************************************)
C6_SuitRequired ==
    /\ \A i \in 1..Len(bids) : requires_suit(bids[i].bid) => bids[i].suit # None
    /\ state = "Ongoing" =>
         \A b \in Bids \ {"Pass", "Counter", "DoubleCounter"} :
             LET r == bid(Self, TurnOf, b, None) IN
             r.result # Ok /\ r.self = Self

(***************************************************************************)
(* C7: DealAgain and Done are absorbing: in such a phase every submission  *)
(* (any player, bid and suit) fails with the "bidding phase is over"       *)
(* error, and no step changes the phase or the history.                    *)
(***************************************************************************)
C7_Absorbing ==
    /\ [](state \in {"DealAgain", "Done"} =>
            \A p \in Players : \A b \in Bids : \A s \in OptSuits :
                bid(Self, p, b, s) = [self |-> Self, result |-> ErrPhaseOver])
    /\ [][(state \in {"DealAgain", "Done"}) =>
            ( /\ state' = state
              /\ bids' = bids
              /\ last'.op = "bid" => last'.result = ErrPhaseOver )]_vars

C7_Witness ==
    /\ state \in {"DealAgain", "Done"}
    /\ last.op = "bid" /\ last.result = ErrPhaseOver

(***************************************************************************)
(* C8: validation is all-or-nothing: a call of bid that returns an error   *)
(* leaves history, phase and starting_player as they were; a call that     *)
(* returns Ok has appended exactly the submitted entry.                    *)
(***************************************************************************)
C8_AllOrNothing ==
    \A p \in Players : \A b \in Bids : \A s \in OptSuits :
        LET r == bid(Self, p, b, s) IN
        /\ r.result # Ok => r.self = Self
        /\ r.result = Ok =>
             /\ r.self.bids = Append(bids, [player |-> p, bid |-> b, suit |-> s])
             /\ r.self.starting_player = starting_player

\* The last of the checks of bid has rejected a submission.
C8_Witness ==
    /\ last.op = "bid" /\ last.result = ErrMissingSuit
    /\ bids # <<>>

(***************************************************************************)
(* C9: while the history holds no entry other than Pass, available_bids    *)
(* for any player is the ladder in canonical order without Counter and     *)
(* DoubleCounter.                                                          *)
(***************************************************************************)
C9_InitialBids ==
    (\A i \in 1..Len(bids) : bids[i].bid = "Pass")
    => \A p \in Players :
           available_bids(Self, p) =
               <<"Pass", "Eighty", "Ninety", "Hundred", "HundredTen",
                 "HundredTwenty", "HundredThirty", "HundredForty",
                 "HundredFifty", "HundredSixty", "Capot">>

\* available_bids was asked after passes only.
C9_Witness ==
    /\ Len(bids) = 2
    /\ \A i \in 1..2 : bids[i].bid = "Pass"
    /\ last.op = "available_bids"
    /\ Len(last.value) = 11

(***************************************************************************)
(* C10: when the last entry other than Pass is a point bid B,              *)
(* available_bids for the next player is exactly Pass together with every  *)
(* bid above B in the canonical order except DoubleCounter: it contains    *)
(* Counter, and neither B nor any lower bid.                               *)
(***************************************************************************)
C10_BidsAbove ==
    (LastRealIndex # 0 /\ bids[LastRealIndex].bid \in PointBids)
    => LET B  == bids[LastRealIndex].bid
           av == available_bids(Self, TurnOf)
       IN  /\ Range(av) =
                {"Pass"} \cup
                {b \in Bids : LadderPos(b) > LadderPos(B) /\ b # "DoubleCounter"}
           /\ Len(av) = Cardinality(Range(av))
           /\ "Counter" \in Range(av)
           /\ \A b \in Range(av) \ {"Pass"} : LadderPos(b) > LadderPos(B)

\* available_bids was asked after Eighty and a pass.
C10_Witness ==
    /\ LastRealIndex # 0 /\ LastRealIndex < Len(bids)
    /\ bids[LastRealIndex].bid = "Eighty"
    /\ last.op = "available_bids"
    /\ last.value = available_bids(Self, TurnOf)
    /\ Len(last.value) = 11

(***************************************************************************)
(* C11: when the last entry other than Pass is a Counter made by a player  *)
(* of team X, available_bids is exactly Pass for each player of team X and *)
(* exactly Pass, DoubleCounter for each player of the other team.          *)
(***************************************************************************)
C11_AfterCounter ==
    (LastRealIndex # 0 /\ bids[LastRealIndex].bid = "Counter")
    => \A p \in Players :
           available_bids(Self, p) =
               IF (p \in {"South", "North"})
                    = (bids[LastRealIndex].player \in {"South", "North"})
               THEN <<"Pass">>
               ELSE <<"Pass", "DoubleCounter">>

\* available_bids was asked for an opponent of the player who countered a
\* point bid, a pass later.
C11_Witness ==
    /\ LastRealIndex >= 2 /\ LastRealIndex < Len(bids)
    /\ bids[LastRealIndex].bid = "Counter"
    /\ bids[1].bid \in PointBids
    /\ last.op = "available_bids"
    /\ last.value = <<"Pass", "DoubleCounter">>

(***************************************************************************)
(* C12: in every state whose phase is Done, get_contract returns a         *)
(* Contract: the history holds an entry whose bid is neither Pass, Counter *)
(* nor DoubleCounter, and that entry carries a suit.                       *)
(***************************************************************************)
C12_DoneHasContract ==
    state = "Done" =>
        /\ get_contract(Self).result = Ok
        /\ \E i \in 1..Len(bids) :
             /\ bids[i].bid \notin {"Pass", "Counter", "DoubleCounter"}
             /\ bids[i].suit # None

(***************************************************************************)
(* C13: in every state whose phase is Ongoing the expected player has a    *)
(* submission that is accepted, and once a DoubleCounter is in the history *)
(* the auction is settled: the phase is Done.                              *)
(***************************************************************************)
C13_Settles ==
    /\ state = "Ongoing" =>
         \E b \in Bids : \E s \in OptSuits : bid(Self, TurnOf, b, s).result = Ok
    /\ (\E i \in 1..Len(bids) : bids[i].bid = "DoubleCounter") =>
         (state = "Done" \/ PassAccepted)

(***************************************************************************)
(* C14: every Counter entry is preceded by a point bid and every           *)
(* DoubleCounter entry by a Counter; the first entry of a history is       *)
(* neither Counter nor DoubleCounter.                                      *)
(***************************************************************************)
C14_CountersFollowBids ==
    \A j \in 1..Len(bids) :
        /\ bids[j].bid = "Counter" =>
             \E i \in 1..(j - 1) : bids[i].bid \in PointBids
        /\ bids[j].bid = "DoubleCounter" =>
             \E i \in 1..(j - 1) : bids[i].bid = "Counter"

(***************************************************************************)
(* C15: the phase is determined by the history: Done exactly when the      *)
(* history holds an entry other than Pass and its last three entries are   *)
(* Pass; DealAgain exactly when the history is four Pass entries; Ongoing  *)
(* otherwise, and so with fewer than four entries.                         *)
(***************************************************************************)
C15_PhaseOfHistory ==
    LET n       == Len(bids)
        hasReal == \E i \in 1..n : bids[i].bid # "Pass"
        last3   == n >= 3 /\ \A i \in (n - 2)..n : bids[i].bid = "Pass"
    IN  /\ state = "Done" <=> (hasReal /\ last3)
        /\ state = "DealAgain" <=> (n = 4 /\ ~hasReal)
        /\ state \in {"Ongoing", "Done", "DealAgain"}
        /\ n < 4 => state = "Ongoing"

\* A bid made after two opening passes and a pass in between has stood.
C15_Witness ==
    /\ state = "Done"
    /\ Len(bids) = 7
    /\ bids[1].bid = "Pass" /\ bids[2].bid = "Pass"
    /\ bids[3].bid # "Pass" /\ bids[4].bid # "Pass"
    /\ last.op = "bid" /\ last.result = Ok

(***************************************************************************)
(* C16: a double-countered contract is obtainable: when a point bid has    *)
(* been followed by a Counter and then by a DoubleCounter, the auction     *)
(* ends Done and get_contract returns the contract of the point bid with   *)
(* countered = true and double_countered = true. Stated on the states      *)
(* where the auction has ended, that is, where no submission of the        *)
(* expected player is accepted any more.                                   *)
(***************************************************************************)
C16_DoubleCounteredContract ==
    \A i \in 1..Len(bids) : \A j \in (i + 1)..Len(bids) : \A k \in (j + 1)..Len(bids) :
        ( /\ bids[i].bid \in PointBids /\ bids[i].suit # None
          /\ PassesBetween(i, j) /\ bids[j].bid = "Counter"
          /\ PassesBetween(j, k) /\ bids[k].bid = "DoubleCounter"
          /\ \A b \in Bids : \A s \in OptSuits :
                 bid(Self, TurnOf, b, s).result # Ok )
        => /\ state = "Done"
           /\ get_contract(Self) =
                [result |-> Ok,
                 contract |-> [player |-> bids[i].player, bid |-> bids[i].bid,
                               suit |-> bids[i].suit, countered |-> TRUE,
                               double_countered |-> TRUE]]

(***************************************************************************)
(* C17: the point bids of the history, in order of submission, are         *)
(* strictly increasing in the canonical order, and no point bid comes      *)
(* after a Counter or a DoubleCounter.                                     *)
(***************************************************************************)
C17_PointBidsIncrease ==
    \A i \in 1..Len(bids) : \A j \in (i + 1)..Len(bids) :
        bids[j].bid \in PointBids =>
            /\ bids[i].bid \in PointBids =>
                 LadderPos(bids[i].bid) < LadderPos(bids[j].bid)
            /\ bids[i].bid \notin {"Counter", "DoubleCounter"}

\* A second point bid was accepted above the first one, and countered.
C17_Witness ==
    /\ last.op = "bid" /\ last.result = Ok
    /\ \E i \in 1..Len(bids) : \E j \in (i + 1)..Len(bids) :
         /\ bids[i].bid = "Eighty" /\ bids[j].bid = "Capot"
         /\ bids[Len(bids)].bid = "Counter"

(***************************************************************************)
(* C18: a Counter that follows a point bid is made by a player of the team *)
(* opposing the player of the last point bid: nobody counters the bid of   *)
(* their own team.                                                         *)
(***************************************************************************)
C18_CounterByOpponent ==
    \A i \in 1..Len(bids) : \A j \in (i + 1)..Len(bids) :
        ( /\ bids[i].bid \in PointBids
          /\ PassesBetween(i, j)
          /\ bids[j].bid = "Counter" )
        => (bids[i].player \in {"South", "North"})
             # (bids[j].player \in {"South", "North"})

(***************************************************************************)
(* C19: whenever get_contract returns a contract, its bid is the greatest  *)
(* point bid of the history, its player and suit are those of the entry    *)
(* that made that bid, and countered is true exactly when the history      *)
(* holds a Counter entry.                                                  *)
(***************************************************************************)
C19_ContractOfGreatestBid ==
    get_contract(Self).result = Ok =>
        LET c == get_contract(Self).contract IN
        /\ \E i \in 1..Len(bids) :
             /\ bids[i].bid \in PointBids
             /\ \A j \in 1..Len(bids) :
                  (j # i /\ bids[j].bid \in PointBids) =>
                      LadderPos(bids[j].bid) < LadderPos(bids[i].bid)
             /\ c.bid = bids[i].bid
             /\ c.player = bids[i].player
             /\ c.suit = bids[i].suit
        /\ c.countered <=> (\E j \in 1..Len(bids) : bids[j].bid = "Counter")

\* The contract of the second of two point bids, countered, was returned.
C19_Witness ==
    /\ last.op = "get_contract" /\ last.result = Ok
    /\ last.value.bid = "Capot" /\ last.value.countered
    /\ \E i \in 1..Len(bids) : bids[i].bid = "Eighty"

C21_FirstPlayerRotates ==
    /\ calls = 0 => first_player = "South"
    /\ calls >= 1 => first_player = SeatAfter("South", calls - 1)

(***************************************************************************)
(* C22: whatever the order of the deck, deal returns four hands of 8 cards *)
(* that partition the deck, handed out in rounds of 3, 2 and 3 cards: hand *)
(* k of 0..3 holds the deck's entries 3k..3k+2, 12+2k..12+2k+1 and         *)
(* 20+3k..20+3k+2, in that order; the deck is as it was before the deal.   *)
(***************************************************************************)
\* The entries of the deck that the claim gives to hand k, counted from 0.
C22_Positions(k) ==
    <<3 * k, 3 * k + 1, 3 * k + 2,
      12 + 2 * k, 12 + 2 * k + 1,
      20 + 3 * k, 20 + 3 * k + 1, 20 + 3 * k + 2>>

C22_DealOf(cs, hs) ==
    /\ Len(hs) = 4
    /\ \A k \in 0..3 :
         /\ Len(hs[k + 1]) = 8
         /\ hs[k + 1] = [n \in 1..8 |-> cs[C22_Positions(k)[n] + 1]]
    /\ \A k, l \in 1..4 : k # l => Range(hs[k]) \cap Range(hs[l]) = {}
    /\ \A k \in 1..4 : Cardinality(Range(hs[k])) = 8
    /\ UNION {Range(hs[k]) : k \in 1..4} = Range(cs)
    /\ Range(cs) = Range(DeckNewCards)

C22_DealPartition ==
    [][ /\ (last'.op = "deal" => (cards' = cards /\ C22_DealOf(cards, hands')))
        /\ (last'.op = "new_round" => C22_DealOf(cards', hands')) ]_vars

C22_Witness ==
    /\ last.op = "deal"
    /\ calls >= 1
    /\ cards # DeckNewCards
    /\ hands = deal(cards)
    /\ hands[2][4] = cards[15]

====
